---- MODULE Spec2Model ----
(***************************************************************************)
(* State store, report lifecycle, moderation switches and conversation     *)
(* history of the Telegram bot in bot.py.                                  *)
(*                                                                         *)
(* Handlers are coroutines: a handler runs without interruption from one   *)
(* await to the next, and other handlers may run while it is suspended.    *)
(* Every action below is one such uninterrupted segment.                   *)
(***************************************************************************)
EXTENDS Integers, Sequences, FiniteSets, TLC

\* ---------------------------------------------------------------- bounds
\* Number of handler invocations (updates) in one run.
NSlots == 3
\* Number of direct push_history calls in the history specification.
MaxPushes == 12

\* ------------------------------------------------------- program constants
\* push_history(..., max_len=10)
DefaultMaxLen == 10
\* len(parts) != 3 in recovery_callback_handler
CallbackParts == 3

\* ---------------------------------------------------------------- inputs
\* Python None and a present value.
None == <<>>
Some(x) == <<x>>

Slots == 1..NSlots
\* Telegram user ids (query.from_user.id, update.effective_user.id).
Users == {1, 2, 3}
\* Users that file reports.
Reporters == {3, 4}
\* Values of uuid.uuid4().hex[:8].
Ids == {"a1b2c3d4", "deadbeef"}
\* Text after the command, already stripped ("" when missing or blank).
Urls == {"https://t.me/canal"}
\* The third part of the callback data.
Actions == {"approve", "deny"}
\* datetime.utcnow().isoformat() + "Z"
Times == {"2024-01-01T00:00:00Z"}
\* update.effective_chat: id and type.
Chats == {[id |-> 42, type |-> "private"], [id |-> -1001, type |-> "supergroup"]}
ChatIds == {c.id : c \in Chats}
\* member.status as returned by get_chat_member, or the call raising.
MemberStatus == {"administrator", "creator", "member", "raise"}
\* Values of the environment variable RECOVERY_ADMIN_IDS, split at ",".
AdminConfigs == {<<"">>, <<"x", "1", " 2", "">>}
\* Values of the environment variable RECOVERY_CHAT_ID.
RecoveryChatConfigs == {None, Some("-100200")}
\* query.data.split(":") of the callbacks the transport delivers.
CallbackData == {<<"recovery", i, a>> : i \in Ids, a \in Actions}
                  \cup {<<"recovery", "deadbeef">>}
\* Messages of /chat and replies of the generation backend.
UserMsgs == {"hola"}
Replies == {"respuesta"}
\* (role, content) pairs pushed directly in the history specification.
PushInputs == {[role |-> "user", content |-> "hola"],
               [role |-> "assistant", content |-> "respuesta"]}

\* State is the module-level dict STATE of bot.py (STATE is a reserved word here).
VARIABLES State, persisted, wrote, h, outbox, keyboards, responses, pushed,
          RECOVERY_ADMIN_IDS, RECOVERY_CHAT_ID

vars == <<State, persisted, wrote, h, outbox, keyboards, responses, pushed,
          RECOVERY_ADMIN_IDS, RECOVERY_CHAT_ID>>

\* --------------------------------------------------------------- helpers
InSeq(x, s) == \E i \in 1..Len(s) : s[i] = x

\* list.remove(x): drops the first occurrence.
RemoveFirst(s, x) ==
  LET i == CHOOSE j \in 1..Len(s) : s[j] = x /\ \A k \in 1..(j - 1) : s[k] # x
  IN  SubSeq(s, 1, i - 1) \o SubSeq(s, i + 1, Len(s))

\* h[-n:] for n > 0
LastN(s, n) == IF Len(s) <= n THEN s ELSE SubSeq(s, Len(s) - n + 1, Len(s))

\* str(chat_id)
Str(c) == CASE c = 42 -> "42" [] c = -1001 -> "-1001"

\* p.strip()
Strip(p) == CASE p = " 2" -> "2" [] OTHER -> p

\* int(p) raises ValueError
IsInt(p) == p \in {"1", "2"}
\* int(p)
IntOf(p) == CASE p = "1" -> 1 [] p = "2" -> 2

\* ----------------------------------------------------------- state store
\* The keys of STATE["histories"]: str(chat_id).
HistoryKeys == {Str(c) : c \in ChatIds}

\* {"moderated_chats": [], "histories": {}, "reports": []}.  A history is never
\* stored empty (push_history appends right after setdefault), so a key that
\* is missing from the dict is represented by the empty list.
DEFAULT_STATE ==
  [moderated_chats |-> <<>>, histories |-> [k \in HistoryKeys |-> <<>>],
   reports |-> <<>>]

\* The in-memory document, the file, and the number of writes of the file.
World(mem, file) == [mem |-> mem, file |-> file, writes |-> 0]

save_state(w) == [w EXCEPT !.file = w.mem, !.writes = w.writes + 1]

\* load_state() on first start: the file does not exist, DEFAULT_STATE is
\* written and read back.
load_state == save_state(World(DEFAULT_STATE, DEFAULT_STATE)).file

is_chat_moderated(mem, chat_id) == InSeq(chat_id, mem.moderated_chats)

add_moderated_chat(w, chat_id) ==
  LET arr == w.mem.moderated_chats
  IN  IF ~InSeq(chat_id, arr)
      THEN save_state([w EXCEPT !.mem.moderated_chats = Append(arr, chat_id)])
      ELSE w

\* remove_moderated_chat that does not write the file.
remove_moderated_chat_unsaved(w, chat_id) ==
  LET arr == w.mem.moderated_chats
  IN  IF InSeq(chat_id, arr)
      THEN [w EXCEPT !.mem.moderated_chats = RemoveFirst(arr, chat_id)]
      ELSE w

remove_moderated_chat(w, chat_id) ==
  LET arr == w.mem.moderated_chats
  IN  IF InSeq(chat_id, arr)
      THEN save_state([w EXCEPT !.mem.moderated_chats = RemoveFirst(arr, chat_id)])
      ELSE w

\* push_history that never trims.
push_history_untrimmed(w, key, role, content) ==
  save_state([w EXCEPT !.mem.histories[key] =
                Append(@, [role |-> role, content |-> content])])

\* push_history that keeps h[:max_len] instead of h[-max_len:].
push_history_keeps_oldest(w, key, role, content) ==
  LET h1 == Append(w.mem.histories[key], [role |-> role, content |-> content])
      h2 == IF Len(h1) > DefaultMaxLen THEN SubSeq(h1, 1, DefaultMaxLen) ELSE h1
  IN  save_state([w EXCEPT !.mem.histories[key] = h2])

\* push_history(chat_id, role, content) with the default max_len; key is
\* str(chat_id).
push_history(w, key, role, content) ==
  LET h0 == w.mem.histories[key]
      h1 == Append(h0, [role |-> role, content |-> content])
      h2 == IF Len(h1) > DefaultMaxLen THEN LastN(h1, DefaultMaxLen) ELSE h1
  IN  save_state([w EXCEPT !.mem.histories[key] = h2])

\* _admin_ids_set() for RECOVERY_ADMIN_IDS already split at ",".
admin_ids_set(parts) ==
  {IntOf(Strip(parts[i])) :
     i \in {j \in 1..Len(parts) : Strip(parts[j]) # "" /\ IsInt(Strip(parts[j]))}}

\* ------------------------------------------------------ report lifecycle
\* _create_report: report_id is uuid.uuid4().hex[:8], now is utcnow().
create_report(w, user_id, channel_url, report_id, now) ==
  LET report == [id |-> report_id, user_id |-> user_id, channel_url |-> channel_url,
                 created_at |-> now, status |-> "pending",
                 response_by |-> None, response_at |-> None]
  IN  save_state([w EXCEPT !.mem.reports = Append(w.mem.reports, report)])

\* next((r for r in reports if r["id"] == report_id), None): the index of the
\* first report with that id, 0 for None.
find_report(reports, report_id) ==
  IF \E i \in 1..Len(reports) : reports[i].id = report_id
  THEN CHOOSE i \in 1..Len(reports) :
         reports[i].id = report_id /\ \A k \in 1..(i - 1) : reports[k].id # report_id
  ELSE 0

\* The authorization check left out.
not_authorized_skipped(admins, clicker_id) == FALSE

\* admins and clicker_id not in admins
not_authorized(admins, clicker_id) == admins # {} /\ clicker_id \notin admins

\* The status check left out.
already_responded_skipped(report) == FALSE

\* report.get("status") != "pending"
already_responded(report) == report.status # "pending"

\* The two statuses swapped.
status_of_swapped(action) == IF action = "approve" THEN "denied" ELSE "provided"

\* The status an action selects.
status_of(action) == IF action = "approve" THEN "provided" ELSE "denied"

\* The transition that records the responder but leaves the status pending.
respond_report_keeps_pending(w, i, action, clicker_id, now) ==
  save_state([w EXCEPT !.mem.reports[i].response_by = Some(clicker_id),
                       !.mem.reports[i].response_at = Some(now)])

\* The pending -> resolved transition of the report at index i.
respond_report(w, i, action, clicker_id, now) ==
  save_state([w EXCEPT !.mem.reports[i].status = status_of(action),
                       !.mem.reports[i].response_by = Some(clicker_id),
                       !.mem.reports[i].response_at = Some(now)])

\* Any member passes.
is_user_admin_any(status) == TRUE

\* member.status in (ChatMember.ADMINISTRATOR, ChatMember.OWNER)
is_user_admin(status) == status \in {"administrator", "creator"}

\* not RECOVERY_CHAT_ID
recovery_chat_unset(v) == v = None \/ v = Some("")

\* --------------------------------------------------------------- handlers
\* One handler invocation: which handler, where it is suspended, and its
\* locals: the update (user, chat, text or callback data) and the report it
\* created or found.  user is kept only where the handler uses the id itself
\* (the reporter, the clicker), chat only where it uses the chat.
Idle == [kind |-> "idle", pc |-> "idle", user |-> 0, chat |-> 0, arg |-> "",
         data |-> <<>>, branch |-> "", idx |-> 0]

\* A handler that has returned: its locals are gone; the branch it returned
\* from is kept, for the moderation switches the member status it read, and
\* for a callback that found the report answered, the clicker.
Done(kind, branch, arg) == [Idle EXCEPT !.kind = kind, !.pc = "done",
                                        !.branch = branch, !.arg = arg]

ChatType(id) == (CHOOSE c \in Chats : c.id = id).type

\* The state after the module is loaded: STATE = load_state().
Init ==
  /\ State = load_state
  /\ persisted = load_state
  /\ wrote = TRUE
  /\ h = [p \in Slots |-> Idle]
  /\ outbox = {}
  /\ keyboards = {}
  /\ responses = {}
  /\ pushed = [k \in HistoryKeys |-> <<>>]
  /\ RECOVERY_ADMIN_IDS \in AdminConfigs
  /\ RECOVERY_CHAT_ID \in RecoveryChatConfigs

W == World(State, persisted)

Apply(w) ==
  /\ State' = w.mem
  /\ persisted' = w.file
  /\ wrote' = (w.writes > 0)

NoWrite == Apply(W)

\* Updates are dispatched in order: slot p starts after the slots before it.
CanStart(p) == h[p].kind = "idle" /\ \A q \in 1..(p - 1) : h[q].kind # "idle"

Begin(p, kind, pc, user, chat, arg, data, branch, idx) ==
  h' = [h EXCEPT ![p] = [kind |-> kind, pc |-> pc, user |-> user, chat |-> chat,
                         arg |-> arg, data |-> data, branch |-> branch, idx |-> idx]]

Finish(p, branch) == h' = [h EXCEPT ![p] = Done(h[p].kind, branch, "")]

Return(p, kind, branch) == h' = [h EXCEPT ![p] = Done(kind, branch, "")]

Env == <<RECOVERY_ADMIN_IDS, RECOVERY_CHAT_ID>>

\* ---- /report_recovery
ReportRecoveryUsage(p) ==
  /\ CanStart(p)
  /\ Return(p, "report_recovery", "usage")
  /\ NoWrite
  /\ UNCHANGED <<outbox, keyboards, responses, pushed, Env>>

ReportRecoveryCreate(p) ==
  /\ CanStart(p)
  /\ \E user \in Reporters, url \in Urls, report_id \in Ids, now \in Times :
       LET w == create_report(W, user, url, report_id, now)
       IN  /\ Apply(w)
           /\ Begin(p, "report_recovery", "rr_reply", user, 0, report_id, <<>>,
                    "created", Len(w.mem.reports))
  /\ UNCHANGED <<outbox, keyboards, responses, pushed, Env>>

ReportRecoveryReplied(p) ==
  /\ h[p].pc = "rr_reply"
  /\ IF recovery_chat_unset(RECOVERY_CHAT_ID)
     THEN Finish(p, "unset")
     ELSE h' = [h EXCEPT ![p].pc = "rr_send"]
  /\ NoWrite
  /\ UNCHANGED <<outbox, keyboards, responses, pushed, Env>>

ReportRecoveryReplyFailed(p) ==
  /\ h[p].pc = "rr_reply"
  /\ Finish(p, "reply_failed")
  /\ NoWrite
  /\ UNCHANGED <<outbox, keyboards, responses, pushed, Env>>

ReportRecoveryNotified(p) ==
  /\ h[p].pc = "rr_send"
  /\ keyboards' = keyboards \cup {h[p].arg}
  /\ Finish(p, "notified")
  /\ NoWrite
  /\ UNCHANGED <<outbox, responses, pushed, Env>>

ReportRecoveryNotifyFailed(p) ==
  /\ h[p].pc = "rr_send"
  /\ Finish(p, "notify_failed")
  /\ NoWrite
  /\ UNCHANGED <<outbox, keyboards, responses, pushed, Env>>

\* ---- recovery button callbacks
CallbackStart(p) ==
  /\ CanStart(p)
  /\ \E user \in Users, data \in CallbackData :
       Begin(p, "recovery_callback", "cb_answer", user, 0, "", data, "", 0)
  /\ NoWrite
  /\ UNCHANGED <<outbox, keyboards, responses, pushed, Env>>

CallbackMalformed(p) ==
  /\ h[p].pc = "cb_answer"
  /\ Len(h[p].data) # CallbackParts \/ h[p].data[1] # "recovery"
  /\ Finish(p, "malformed")
  /\ NoWrite
  /\ UNCHANGED <<outbox, keyboards, responses, pushed, Env>>

WellFormed(p) ==
  /\ h[p].pc = "cb_answer"
  /\ Len(h[p].data) = CallbackParts
  /\ h[p].data[1] = "recovery"

CallbackUnauthorized(p) ==
  /\ WellFormed(p)
  /\ not_authorized(admin_ids_set(RECOVERY_ADMIN_IDS), h[p].user)
  /\ Finish(p, "unauthorized")
  /\ NoWrite
  /\ UNCHANGED <<outbox, keyboards, responses, pushed, Env>>

Authorized(p) ==
  /\ WellFormed(p)
  /\ ~not_authorized(admin_ids_set(RECOVERY_ADMIN_IDS), h[p].user)

CallbackNotFound(p) ==
  /\ Authorized(p)
  /\ find_report(State.reports, h[p].data[2]) = 0
  /\ Finish(p, "notfound")
  /\ NoWrite
  /\ UNCHANGED <<outbox, keyboards, responses, pushed, Env>>

CallbackAlready(p) ==
  /\ Authorized(p)
  /\ LET i == find_report(State.reports, h[p].data[2])
     IN  /\ i # 0
         /\ already_responded(State.reports[i])
  /\ h' = [h EXCEPT ![p] = [Done(h[p].kind, "already", "") EXCEPT !.user = h[p].user]]
  /\ NoWrite
  /\ UNCHANGED <<outbox, keyboards, responses, pushed, Env>>

CallbackRespond(p) ==
  /\ Authorized(p)
  /\ LET i == find_report(State.reports, h[p].data[2])
     IN  /\ i # 0
         /\ ~already_responded(State.reports[i])
         /\ \E now \in Times :
              Apply(respond_report(W, i, h[p].data[3], h[p].user, now))
         /\ responses' = responses \cup
              {[by |-> p, idx |-> i, user |-> h[p].user, action |-> h[p].data[3]]}
         /\ h' = [h EXCEPT ![p].pc = "cb_edit", ![p].idx = i]
  /\ UNCHANGED <<outbox, keyboards, pushed, Env>>

\* The message sent to the reporting user after the transition.
resolution_message(p, report_id, report) ==
  [from |-> p, to |-> report.user_id, report_id |-> report_id,
   channel_url |-> report.channel_url,
   text |-> IF report.status = "provided" THEN "provee" ELSE "no_provee"]

CallbackNotifyUser(p) ==
  /\ h[p].pc = "cb_edit"
  /\ outbox' = outbox \cup
       {resolution_message(p, h[p].data[2], State.reports[h[p].idx])}
  /\ Finish(p, "responded")
  /\ NoWrite
  /\ UNCHANGED <<keyboards, responses, pushed, Env>>

CallbackNotifyFailed(p) ==
  /\ h[p].pc = "cb_edit"
  /\ Finish(p, "responded_unnotified")
  /\ NoWrite
  /\ UNCHANGED <<outbox, keyboards, responses, pushed, Env>>

\* ---- /recovery_status
RecoveryStatus(p) ==
  /\ CanStart(p)
  /\ \E report_id \in Ids \cup {""} :
       LET i == find_report(State.reports, report_id)
       IN  Return(p, "recovery_status",
                  IF report_id = "" THEN "usage"
                  ELSE IF i = 0 THEN "notfound"
                  ELSE State.reports[i].status)
  /\ NoWrite
  /\ UNCHANGED <<outbox, keyboards, responses, pushed, Env>>

\* ---- /moderate_on, /moderate_off
ModerateOnPrivate(p) ==
  /\ CanStart(p)
  /\ \E chat \in Chats :
       /\ chat.type = "private"
       /\ Return(p, "moderate_on", "private")
  /\ NoWrite
  /\ UNCHANGED <<outbox, keyboards, responses, pushed, Env>>

ModerateOnStart(p) ==
  /\ CanStart(p)
  /\ \E chat \in Chats :
       /\ chat.type # "private"
       /\ Begin(p, "moderate_on", "mo_check", 0, chat.id, "", <<>>, "", 0)
  /\ NoWrite
  /\ UNCHANGED <<outbox, keyboards, responses, pushed, Env>>

ModerateOnDenied(p) ==
  /\ h[p].pc = "mo_check"
  /\ \E status \in MemberStatus :
       /\ status = "raise" \/ ~is_user_admin(status)
       /\ h' = [h EXCEPT ![p] = Done(h[p].kind, IF status = "raise" THEN "check_failed"
                                                    ELSE "not_admin", status)]
  /\ NoWrite
  /\ UNCHANGED <<outbox, keyboards, responses, pushed, Env>>

ModerateOnAdd(p) ==
  /\ h[p].pc = "mo_check"
  /\ \E status \in MemberStatus :
       /\ status # "raise" /\ is_user_admin(status)
       /\ h' = [h EXCEPT ![p] = Done(h[p].kind, "on", status)]
  /\ Apply(add_moderated_chat(W, h[p].chat))
  /\ UNCHANGED <<outbox, keyboards, responses, pushed, Env>>

ModerateOffStart(p) ==
  /\ CanStart(p)
  /\ \E chat \in Chats :
       Begin(p, "moderate_off", "mf_check", 0, chat.id, "", <<>>, "", 0)
  /\ NoWrite
  /\ UNCHANGED <<outbox, keyboards, responses, pushed, Env>>

ModerateOffDenied(p) ==
  /\ h[p].pc = "mf_check"
  /\ \E status \in MemberStatus :
       /\ status = "raise" \/ ~is_user_admin(status)
       /\ h' = [h EXCEPT ![p] = Done(h[p].kind, IF status = "raise" THEN "check_failed"
                                                    ELSE "not_admin", status)]
  /\ NoWrite
  /\ UNCHANGED <<outbox, keyboards, responses, pushed, Env>>

ModerateOffRemove(p) ==
  /\ h[p].pc = "mf_check"
  /\ \E status \in MemberStatus :
       /\ status # "raise" /\ is_user_admin(status)
       /\ h' = [h EXCEPT ![p] = Done(h[p].kind, "off", status)]
  /\ Apply(remove_moderated_chat(W, h[p].chat))
  /\ UNCHANGED <<outbox, keyboards, responses, pushed, Env>>

\* ---- /chat
ChatCmdUsage(p) ==
  /\ CanStart(p)
  /\ Return(p, "chat_cmd", "usage")
  /\ NoWrite
  /\ UNCHANGED <<outbox, keyboards, responses, pushed, Env>>

Log(key, role, content) ==
  pushed' = [pushed EXCEPT ![key] = Append(@, [role |-> role, content |-> content])]

ChatCmdStart(p) ==
  /\ CanStart(p)
  /\ \E chat \in Chats, user_msg \in UserMsgs :
       /\ Begin(p, "chat_cmd", "chat_hf", 0, chat.id, user_msg, <<>>, "", 0)
       /\ Apply(push_history(W, Str(chat.id), "user", user_msg))
       /\ Log(Str(chat.id), "user", user_msg)
  /\ UNCHANGED <<outbox, keyboards, responses, Env>>

ChatCmdReplied(p) ==
  /\ h[p].pc = "chat_hf"
  /\ \E assistant_msg \in Replies :
       /\ Apply(push_history(W, Str(h[p].chat), "assistant", assistant_msg))
       /\ Log(Str(h[p].chat), "assistant", assistant_msg)
  /\ Finish(p, "replied")
  /\ UNCHANGED <<outbox, keyboards, responses, Env>>

ChatCmdFailed(p) ==
  /\ h[p].pc = "chat_hf"
  /\ Finish(p, "hf_failed")
  /\ NoWrite
  /\ UNCHANGED <<outbox, keyboards, responses, pushed, Env>>

\* ---- push_history called on its own
RECURSIVE SumLen(_, _)
SumLen(f, S) ==
  IF S = {} THEN 0
  ELSE LET k == CHOOSE x \in S : TRUE IN Len(f[k]) + SumLen(f, S \ {k})

PushHistoryCall ==
  /\ SumLen(pushed, HistoryKeys) < MaxPushes
  /\ \E key \in HistoryKeys, e \in PushInputs :
       /\ Apply(push_history(W, key, e.role, e.content))
       /\ Log(key, e.role, e.content)
  /\ UNCHANGED <<h, outbox, keyboards, responses, Env>>

\* ------------------------------------------------------- specifications
NextReports ==
  \E p \in Slots :
    \/ ReportRecoveryUsage(p)
    \/ ReportRecoveryCreate(p)
    \/ ReportRecoveryReplied(p)
    \/ ReportRecoveryReplyFailed(p)
    \/ ReportRecoveryNotified(p)
    \/ ReportRecoveryNotifyFailed(p)
    \/ CallbackStart(p)
    \/ CallbackMalformed(p)
    \/ CallbackUnauthorized(p)
    \/ CallbackNotFound(p)
    \/ CallbackAlready(p)
    \/ CallbackRespond(p)
    \/ CallbackNotifyUser(p)
    \/ CallbackNotifyFailed(p)
    \/ RecoveryStatus(p)

NextModeration ==
  \E p \in Slots :
    \/ ModerateOnPrivate(p)
    \/ ModerateOnStart(p)
    \/ ModerateOnDenied(p)
    \/ ModerateOnAdd(p)
    \/ ModerateOffStart(p)
    \/ ModerateOffDenied(p)
    \/ ModerateOffRemove(p)

NextChat ==
  \E p \in Slots :
    \/ ChatCmdUsage(p)
    \/ ChatCmdStart(p)
    \/ ChatCmdReplied(p)
    \/ ChatCmdFailed(p)

Next == NextReports \/ NextModeration \/ NextChat

\* The whole bot: any handlers, interleaved at their awaits.
Spec == Init /\ [][Next]_vars

\* The same with the environment fixed, for the handlers that do not read it.
InitFixedEnv ==
  /\ Init
  /\ RECOVERY_ADMIN_IDS = <<"">>
  /\ RECOVERY_CHAT_ID = None

SpecReports == Init /\ [][NextReports]_vars
SpecModeration == InitFixedEnv /\ [][NextModeration]_vars
SpecHistory == InitFixedEnv /\ [][PushHistoryCall]_vars

\* ------------------------------------------------------------ properties
Resolved == {"provided", "denied"}

\* The step is taken by handler p.
StepOf(p) == h'[p] # h[p]

\* C1: a report is created "pending"; its status changes at most once, from
\* "pending" to "provided" or "denied"; a resolved report never changes again,
\* whoever presses a button.
C1_StatusChangesOnce ==
  [][/\ Len(State'.reports) >= Len(State.reports)
     /\ \A i \in 1..Len(State'.reports) :
          IF i <= Len(State.reports)
          THEN LET a == State.reports[i]
                   b == State'.reports[i]
               IN  /\ b.status # a.status =>
                        a.status = "pending" /\ b.status \in Resolved
                   /\ a.status \in Resolved => b = a
          ELSE State'.reports[i].status = "pending"]_vars

\* A callback found its report answered: a later press on a resolved report.
C1_Witness ==
  \E p \in Slots :
    /\ h[p].branch = "already"
    /\ \E i \in 1..Len(State.reports) : State.reports[i].status \in Resolved

\* C2: no two entries of STATE["reports"] have the same id.
C2_ReportIdsUnique ==
  \A i, j \in 1..Len(State.reports) :
    i # j => State.reports[i].id # State.reports[j].id

\* Every report has at most one response, a resolved one exactly one, whose
\* user and action are the stored response_by and status; at most one
\* resolution message names the report.
C3_OneResponse ==
  \A i \in 1..Len(State.reports) :
    LET r == State.reports[i]
        R == {e \in responses : e.idx = i}
    IN  /\ Cardinality(R) <= 1
        /\ r.status \in Resolved <=> R # {}
        /\ \A e \in R :
             /\ r.response_by = Some(e.user)
             /\ r.status = IF e.action = "approve" THEN "provided" ELSE "denied"
        /\ Cardinality({m \in outbox : m.report_id = r.id}) <= 1

\* The step of an authorized press on an existing report: the transition
\* when the report is pending, else the "already" branch with nothing changed.
C3_PressStep ==
  \A p \in Slots :
    LET admins == admin_ids_set(RECOVERY_ADMIN_IDS)
        i == find_report(State.reports, h[p].data[2])
    IN  (/\ h[p].pc = "cb_answer"
         /\ StepOf(p)
         /\ Len(h[p].data) = CallbackParts
         /\ admins = {} \/ h[p].user \in admins
         /\ i # 0)
        => IF State.reports[i].status = "pending"
           THEN /\ responses' = responses \cup
                     {[by |-> p, idx |-> i, user |-> h[p].user,
                       action |-> h[p].data[3]]}
                /\ State'.reports[i].status \in Resolved
           ELSE /\ h'[p].branch = "already"
                /\ UNCHANGED <<State, persisted, outbox, responses>>
                /\ ~wrote'

\* C3: of the authorized presses on one report, in any order or interleaving,
\* exactly one performs the transition, and status and response_by are those
\* of that press; a press on an answered report returns from the "ya fue
\* respondido" branch and changes nothing; the reporting user gets at most
\* one resolution message.
C3_ConcurrentResponsesGuarded == [](C3_OneResponse) /\ [][C3_PressStep]_vars

\* Two users pressed for the same report while the first run is still
\* suspended after its transition: the second returned from "already".
C3_Witness ==
  \E p, q \in Slots :
    /\ h[q].pc = "cb_edit"
    /\ h[p].branch = "already"
    /\ h[p].user # h[q].user
    /\ Len(State.reports) = 1
    /\ State.reports[1].response_by = Some(h[q].user)

\* C4: every history has at most 10 entries, in memory and in the file.
C4_HistoriesBounded ==
  \A k \in HistoryKeys :
    /\ Len(State.histories[k]) <= 10
    /\ Len(persisted.histories[k]) <= 10

\* An eleventh entry was pushed to a chat.
C4_Witness ==
  \E k \in HistoryKeys : Len(pushed[k]) > 10 /\ Len(persisted.histories[k]) = 10

\* The history of a chat is the last min(n, 10) of the n entries pushed to it.
C5_LastPushed ==
  \A k \in HistoryKeys :
    LET n == Len(pushed[k])
        m == IF n < 10 THEN n ELSE 10
    IN  /\ Len(State.histories[k]) = m
        /\ \A j \in 1..m : State.histories[k][j] = pushed[k][n - m + j]

\* A step that pushes nothing to a chat leaves its history as it was.
C5_OthersUntouched ==
  \A k \in HistoryKeys :
    pushed'[k] = pushed[k] => State'.histories[k] = State.histories[k]

\* C5: after n pushes to a chat its history is the last min(n, 10) pushed
\* entries in push order (oldest dropped first), and a push to one chat
\* leaves the histories of the other chats unchanged.
C5_RingBuffer == [](C5_LastPushed) /\ [][C5_OthersUntouched]_vars

\* The oldest entry of a chat was dropped while another chat has a history.
C5_Witness ==
  \E k, k2 \in HistoryKeys :
    /\ k # k2
    /\ Len(pushed[k]) > 10
    /\ State.histories[k][1] # pushed[k][1]
    /\ Len(State.histories[k2]) > 0

\* The reports created so far: the /report_recovery runs that passed the
\* usage check.
Created == {p \in Slots : h[p].kind = "report_recovery" /\ h[p].branch # "usage"}

\* C6: at every await of every handler the file holds the in-memory
\* document, and that document holds every change made so far: every report
\* created, every response, and the last 10 entries pushed to every chat.
C6_NoLostUpdate ==
  /\ persisted = State
  /\ Len(persisted.reports) = Cardinality(Created)
  /\ \A e \in responses :
       persisted.reports[e.idx].response_by = Some(e.user)
  /\ \A k \in HistoryKeys : persisted.histories[k] = LastN(pushed[k], 10)

\* A report, a moderated chat and a history are all in the file.
C6_Witness ==
  /\ Len(persisted.reports) > 0
  /\ Len(persisted.moderated_chats) > 0
  /\ \E k \in HistoryKeys : Len(persisted.histories[k]) > 0

NoDuplicates(s) == \A i, j \in 1..Len(s) : i # j => s[i] # s[j]

\* moderated_chats changes only in the step of a /moderate_on or
\* /moderate_off whose membership check returned administrator or owner.
C7_SwitchStep ==
  (State'.moderated_chats # State.moderated_chats
     \/ persisted'.moderated_chats # persisted.moderated_chats)
  => \E p \in Slots :
       /\ h[p].pc \in {"mo_check", "mf_check"}
       /\ h'[p].pc = "done"
       /\ h'[p].arg \in {"administrator", "creator"}
       /\ persisted'.moderated_chats = State'.moderated_chats
       /\ IF h[p].kind = "moderate_on"
          THEN /\ ChatType(h[p].chat) # "private"
               /\ State'.moderated_chats = Append(State.moderated_chats, h[p].chat)
          ELSE /\ InSeq(h[p].chat, State.moderated_chats)
               /\ ~InSeq(h[p].chat, State'.moderated_chats)

\* C7: moderated_chats changes only in the step of a /moderate_on or
\* /moderate_off whose membership check returned administrator or owner: the
\* chat is then added (never for a private chat) or removed; when the caller
\* is no admin or the check raises it is unchanged, in memory and in the file.
\* No chat id is in it twice.
C7_ModerationNeedsAdmin ==
  [](NoDuplicates(State.moderated_chats) /\ NoDuplicates(persisted.moderated_chats))
    /\ [][C7_SwitchStep]_vars

\* A non-admin was refused while the chat is moderated, and an admin has
\* switched moderation on.
C7_Witness ==
  \E p, q \in Slots :
    /\ h[p].branch = "not_admin"
    /\ h[q].branch = "on"
    /\ is_chat_moderated(State, -1001)

\* C8: when RECOVERY_CHAT_ID is unset or the message to the recovery chat
\* fails, the report the handler created is in STATE["reports"] and in the
\* file with status "pending", /recovery_status with its id finds a report
\* and it is that one, and the failure changes no report.
C8_FailedNotifyKeepsReport ==
  [][\A p \in Slots :
       (/\ h[p].pc \in {"rr_reply", "rr_send"}
        /\ h'[p].branch \in {"unset", "notify_failed"})
       => LET i == h[p].idx
              j == find_report(State'.reports, h[p].arg)
          IN  /\ UNCHANGED <<State, persisted>>
              /\ i \in 1..Len(State'.reports)
              /\ State'.reports[i].status = "pending"
              /\ persisted'.reports[i].status = "pending"
              /\ j # 0
              /\ State'.reports[j] = State'.reports[i]]_vars

\* C9: with a non-empty admin set, the step of a callback whose user is not
\* in the set changes no report, does not write the file, sends nothing and
\* ends the handler.
C9_UnauthorizedChangesNothing ==
  [][\A p \in Slots :
       LET admins == admin_ids_set(RECOVERY_ADMIN_IDS)
       IN  (/\ h[p].kind = "recovery_callback"
            /\ StepOf(p)
            /\ admins # {}
            /\ h[p].user \notin admins)
           => /\ UNCHANGED <<State, persisted, outbox, responses>>
              /\ ~wrote'
              /\ h'[p].pc = "done"]_vars

\* An unauthorized press has returned and an authorized press on a pending
\* report can now perform the transition.
C9_Witness ==
  \E p, q \in Slots :
    /\ h[p].branch = "unauthorized"
    /\ h[q].pc = "cb_answer"
    /\ ENABLED CallbackRespond(q)

\* C10: a report is "pending" exactly when response_by and response_at are
\* both null; a resolved report has the clicker of the press that performed
\* the transition as response_by and is "provided" exactly when that press
\* was "approve"; a resolution message goes to the reporting user and says
\* what the stored status says.
C10_ReportConsistent ==
  /\ \A i \in 1..Len(State.reports) :
       LET r == State.reports[i]
       IN  /\ r.status = "pending" <=> (r.response_by = None /\ r.response_at = None)
           /\ r.status \in Resolved \cup {"pending"}
           /\ r.status \in Resolved =>
                /\ r.response_by # None /\ r.response_at # None
                /\ \E e \in responses :
                     /\ e.idx = i
                     /\ r.response_by = Some(e.user)
                     /\ r.status = "provided" <=> e.action = "approve"
  /\ \A m \in outbox :
       LET i == find_report(State.reports, m.report_id)
       IN  /\ i # 0
           /\ State.reports[i].status \in Resolved
           /\ m.to = State.reports[i].user_id
           /\ m.text = "provee" <=> State.reports[i].status = "provided"

\* A denied report whose reporter was told so, next to a pending one.
C10_Witness ==
  /\ \E m \in outbox : m.text = "no_provee"
  /\ \E i, j \in 1..Len(State.reports) :
       State.reports[i].status = "denied" /\ State.reports[j].status = "pending"

====
